---- MODULE Spec2Model ----
(***************************************************************************)
(* Study Buddy backend: the persistence helpers of database.py running in  *)
(* fallback mode (db is None, documents kept in _memory_store) and the     *)
(* request handlers of main.py that call them.                             *)
(*                                                                         *)
(* Python values are represented as follows.                               *)
(*   str            a TLA+ string                                          *)
(*   None           the string None (no modelled input equals it)          *)
(*   f-string       F(template, args), except the pseudo id, which is      *)
(*                  rendered token by token (PseudoId)                     *)
(*   Optional[int]  <<>> for None, <<n>> for the integer n                 *)
(*   Optional[dict] <<>> for None, <<d>> for the dict d                    *)
(*   dict           a function from keys (strings) to values               *)
(*   list           a sequence                                             *)
(*   datetime       the clock reading, an integer number of clock units    *)
(***************************************************************************)
EXTENDS Integers, Sequences, FiniteSets, TLC

VARIABLES memory_store, clock, last, returned, pc, frame

vars == <<memory_store, clock, last, returned, pc, frame>>

(***************************************************************************)
(* Bounds of the model.                                                    *)
(***************************************************************************)
\* documents created in a run of Spec
MaxDocs == 2
\* documents created in a run of SpecClock
MaxClockDocs == 3
\* documents created in a run of SpecGen
MaxGenDocs == 2
\* documents created in a run of SpecLib
MaxLibDocs == 11
\* create_document calls started in a run of SpecConc
MaxCalls == 2
\* clock units per millisecond (datetime is finer than the pseudo id's stamp)
TicksPerMs == 2
\* the clock's reading when the process starts
StartClock == 19

\* what the clock may advance by between two reads of it
Ticks == {0, 1}
\* the clock advancing by one unit between any two reads
Steady == {1}
\* the clock not advancing
Frozen == {0}

Users == {"u1", "u2"}
Threads == {1, 2}

Min(a, b) == IF a < b THEN a ELSE b
Max(a, b) == IF a > b THEN a ELSE b

(***************************************************************************)
(* Python values.                                                          *)
(***************************************************************************)
None == "<None>"

\* x or y, for an Optional[str] x
StrOr(x, y) == IF x = None \/ x = "" THEN y ELSE x

\* an f-string: the template and the values formatted into it
F(template, args) == [template |-> template, args |-> args]

\* dict.get(k): the value under k, None when the key is absent
DictGet(d, k) == IF k \in DOMAIN d THEN d[k] ELSE None

\* d[k] = v on a dict
DictSet(d, k, v) == [x \in DOMAIN d \cup {k} |-> IF x = k THEN v ELSE d[x]]

\* s[:n], Python's prefix slice (a negative n counts from the end)
PySlice(s, n) ==
    IF n >= 0 THEN SubSeq(s, 1, Min(n, Len(s)))
    ELSE SubSeq(s, 1, Max(0, Len(s) + n))

Digit(d) ==
    CASE d = 0 -> "0" [] d = 1 -> "1" [] d = 2 -> "2" [] d = 3 -> "3"
      [] d = 4 -> "4" [] d = 5 -> "5" [] d = 6 -> "6" [] d = 7 -> "7"
      [] d = 8 -> "8" [] d = 9 -> "9"

\* the decimal rendering of a natural number, one token per digit
RECURSIVE Digits(_)
Digits(n) == IF n < 10 THEN <<Digit(n)>> ELSE Digits(n \div 10) \o <<Digit(n % 10)>>

(***************************************************************************)
(* database.py                                                             *)
(***************************************************************************)
\* DATABASE_URL and DATABASE_NAME are unset: no client, db stays None
db == None

\* _now(): a read of the clock, which has advanced by d since the last read
_now(clk, d) == clk + d

\* int(datetime.now().timestamp()*1000)
EpochMillis(t) == t \div TicksPerMs

\* f"demo-{collection_name}-{millis}", the sequence number left out
PseudoId_NoSuffix(collection_name, millis, n) ==
    <<"demo-", collection_name, "-">> \o Digits(millis)

\* f"demo-{collection_name}-{millis}-{len(coll)+2}"
PseudoId_OffByOne(collection_name, millis, n) ==
    <<"demo-", collection_name, "-">> \o Digits(millis) \o <<"-">> \o Digits(n + 2)

\* f"demo-{collection_name}-{millis}-{len(coll)+1}"
PseudoId(collection_name, millis, n) ==
    <<"demo-", collection_name, "-">> \o Digits(millis) \o <<"-">> \o Digits(n + 1)

\* _memory_store.get(collection_name, [])
StoreGet(store, collection_name) ==
    IF collection_name \in DOMAIN store THEN store[collection_name] ELSE <<>>

\* data_dict = dict(data); data_dict['created_at'] = t1; data_dict['updated_at'] = t2
Stamp(data, t1, t2) == DictSet(DictSet(data, "created_at", t1), "updated_at", t2)

\* coll.insert(0, data_dict) in place of coll.append(data_dict)
StoreAppend_Prepend(store, collection_name, data_dict) ==
    DictSet(store, collection_name, <<data_dict>> \o StoreGet(store, collection_name))

\* _memory_store[collection_name] = [data_dict] in place of coll.append(data_dict)
StoreAppend_Overwrite(store, collection_name, data_dict) ==
    DictSet(store, collection_name, <<data_dict>>)

\* coll.append(data_dict), coll being _memory_store[collection_name]
StoreAppend(store, collection_name, data_dict) ==
    DictSet(store, collection_name, Append(StoreGet(store, collection_name), data_dict))

\* create_document run without interruption: the store and the clock it
\* leaves, and the id it returns. d1, d2, d3 are what the clock advances by
\* before its three reads.
create_document(store, clk, collection_name, data, d1, d2, d3) ==
    LET t1 == _now(clk, d1)
        t2 == _now(t1, d2)
        t3 == _now(t2, d3)
        data_dict == Stamp(data, t1, t2)
        coll == StoreGet(store, collection_name)
        pseudo_id == PseudoId(collection_name, EpochMillis(t3), Len(coll))
    IN  [store |-> StoreAppend(store, collection_name, DictSet(data_dict, "_id", pseudo_id)),
         clock |-> t3,
         id |-> pseudo_id]

\* _matches(doc) of get_documents
_matches(doc, filter_dict) ==
    \A k \in DOMAIN filter_dict : ~(DictGet(doc, k) # filter_dict[k])

\* if limit: results = results[:limit]
Truncate(results, limit) ==
    IF limit # <<>> /\ limit[1] # 0 THEN PySlice(results, limit[1]) ELSE results

\* get_documents, fallback branch
get_documents(store, collection_name, filter_opt, limit) ==
    LET filter_dict == IF filter_opt = <<>> \/ DOMAIN filter_opt[1] = {} THEN <<>> ELSE filter_opt[1]
        coll == StoreGet(store, collection_name)
        results == SelectSeq(coll, LAMBDA doc : _matches(doc, filter_dict))
    IN  Truncate(results, limit)

(***************************************************************************)
(* main.py: what each handler stores and answers.                          *)
(***************************************************************************)
Collections == {"user", "profile", "doubt", "flashcard", "quiz", "studyplan", "notesummary"}

\* req.message.strip() on the messages of the model
Strip(s) ==
    CASE s = " gravity " -> "gravity"
      [] s = "osmosis\n" -> "osmosis"
      [] OTHER -> s

\* login: the user document
LoginDoc(req) ==
    [name |-> StrOr(req.name, "Student"),
     email |-> IF req.provider = "email" THEN req.identifier ELSE None,
     phone |-> IF req.provider = "phone" THEN req.identifier ELSE None,
     provider |-> req.provider,
     preferred_language |-> "English"]

\* setup_profile: the profile document
ProfileDoc(data) ==
    [user_id |-> data.user_id,
     grade |-> data.grade,
     subjects |-> data.subjects,
     study_goal |-> data.study_goal,
     daily_study_minutes |-> data.daily_study_minutes]

\* chat: the answer of the explain10, simplify and default branches
ChatAnswer(action, msg) ==
    CASE action = "explain10" -> F("Imagine you are 10: {} means we break it into super simple ideas and examples so it's easy to get.", <<msg>>)
      [] action = "simplify" -> F("Simplified: {} in plain words with fewer steps.", <<msg>>)
      [] OTHER -> F("Answer for '{}': here's a clear explanation with steps where needed.", <<msg>>)

\* chat, action flashcards: the two items
ChatItems(msg) ==
    <<[question |-> F("What is: {}?", <<msg>>), answer |-> "Definition in 1-2 lines"],
      [question |-> F("Why is {} important?", <<msg>>), answer |-> "Key reason"]>>

\* chat, action quiz: the two questions
ChatQuestions(msg) ==
    <<[question |-> F("Explain {} in one line", <<msg>>), type |-> "short"],
      [question |-> F("Which is true about {}?", <<msg>>), type |-> "mcq",
       options |-> <<"A", "B", "C", "D">>, answer |-> "A"]>>

\* chat: the collection written and the document stored
ChatCollection(req) ==
    CASE req.action = "flashcards" -> "flashcard"
      [] req.action = "quiz" -> "quiz"
      [] OTHER -> "doubt"

ChatDoc(req) ==
    LET msg == Strip(req.message)
    IN  CASE req.action = "flashcards" ->
               [user_id |-> req.user_id, topic |-> msg, items |-> ChatItems(msg)]
          [] req.action = "quiz" ->
               [user_id |-> req.user_id, topic |-> msg, questions |-> ChatQuestions(msg)]
          [] OTHER ->
               [user_id |-> req.user_id, source |-> "text", prompt |-> msg,
                answer |-> ChatAnswer(req.action, msg)]

\* chat: the response key that carries the id create_document returned
ChatIdKey(req) ==
    CASE req.action = "flashcards" -> "flashcard_id"
      [] req.action = "quiz" -> "quiz_id"
      [] OTHER -> "doubt_id"

\* chat: the rest of the response
ChatResponse(req) ==
    LET msg == Strip(req.message)
    IN  CASE req.action = "flashcards" -> [type |-> "flashcards", items |-> ChatItems(msg)]
          [] req.action = "quiz" -> [type |-> "quiz", questions |-> ChatQuestions(msg)]
          [] OTHER -> [type |-> "answer", answer |-> ChatAnswer(req.action, msg)]

\* photo_doubt: filename, mock OCR text, answer and the doubt document
PhotoFilename(file) == StrOr(file.filename, "image.jpg")
PhotoOcr(file) == F("Extracted text from {}", <<PhotoFilename(file)>>)
PhotoAnswer(file) ==
    F("Solution based on OCR: {}. If unclear, please retake a brighter photo.", <<PhotoOcr(file)>>)
PhotoDoc(user_id, file) ==
    [user_id |-> user_id, source |-> "image", image_url |-> PhotoFilename(file),
     ocr_text |-> PhotoOcr(file), answer |-> PhotoAnswer(file)]

\* min(req.count, 20), the lower clamp left out
FlashcardCount_NoFloor(count) == Min(count, 20)

\* generate_flashcards: max(1, min(req.count, 20))
FlashcardCount(count) == Max(1, Min(count, 20))

\* generate_flashcards: the items, one per i in range(FlashcardCount(count))
FlashcardItems(req) ==
    [n \in 1..FlashcardCount(req.count) |->
        [question |-> F("Q{} about {}", <<n, StrOr(req.topic, "topic")>>),
         answer |-> "Concise answer"]]

FlashcardDoc(req) ==
    [user_id |-> req.user_id, subject |-> req.subject, topic |-> req.topic,
     items |-> FlashcardItems(req)]

\* generate_quiz: question i of range(req.count), mcq at even i
QuizQuestion(req, i) ==
    IF i % 2 = 0
    THEN [question |-> F("MCQ on {} #{}", <<req.topic, i + 1>>), type |-> "mcq",
          options |-> <<"A", "B", "C", "D">>, answer |-> "A"]
    ELSE [question |-> F("Short answer on {} #{}", <<req.topic, i + 1>>), type |-> "short"]

QuizQuestions(req) == [n \in 1..req.count |-> QuizQuestion(req, n - 1)]

QuizDoc(req) == [user_id |-> req.user_id, topic |-> req.topic, questions |-> QuizQuestions(req)]

\* req.daily_minutes // max(1, len(req.subjects)), the floor of one minute left out
PerDay_NoFloor(req) == req.daily_minutes \div Max(1, Len(req.subjects))

\* create_plan: max(1, req.daily_minutes // max(1, len(req.subjects)))
PerDay(req) == Max(1, req.daily_minutes \div Max(1, Len(req.subjects)))

\* create_plan: one task per (idx, subject) of enumerate(req.subjects)
PlanTasks(req) ==
    [n \in 1..Len(req.subjects) |->
        [date |-> F("D+{}", <<n>>), subject |-> req.subjects[n],
         topic |-> F("Core concepts {}", <<n>>), minutes |-> PerDay(req)]]

PlanDoc(req) ==
    [user_id |-> req.user_id, exam_date |-> req.exam_date, daily_minutes |-> req.daily_minutes,
     subjects |-> req.subjects, tasks |-> PlanTasks(req)]

\* summarize: the fixed bullets and explanation
SummaryBullets == <<"Key point 1", "Key point 2", "Key point 3", "Key point 4", "Key point 5">>
SummaryExplanation == "Short explanation combining the key points in simple language."
SummaryDoc(req) ==
    [user_id |-> req.user_id, subject |-> req.subject, text |-> req.text,
     bullets |-> SummaryBullets, explanation |-> SummaryExplanation]

\* limit=10 on every query of library
LibraryLimit_AllTen(collection_name) == 10

\* library: the limits of its five queries
LibraryLimit(collection_name) == IF collection_name = "studyplan" THEN 5 ELSE 10

\* library: get_documents(collection_name, {"user_id": user_id}, limit=...)
LibraryQuery(store, collection_name, user_id) ==
    get_documents(store, collection_name, <<[user_id |-> user_id]>>,
                  <<LibraryLimit(collection_name)>>)

LibraryResponse(store, user_id) ==
    [recent_doubts |-> LibraryQuery(store, "doubt", user_id),
     flashcards |-> LibraryQuery(store, "flashcard", user_id),
     quizzes |-> LibraryQuery(store, "quiz", user_id),
     plans |-> LibraryQuery(store, "studyplan", user_id),
     summaries |-> LibraryQuery(store, "notesummary", user_id)]

(***************************************************************************)
(* State.                                                                  *)
(*   memory_store  _memory_store                                           *)
(*   clock         the wall clock's last reading                           *)
(*   last          the last completed call: its arguments and its answer   *)
(*   returned      per collection, the calls of create_document that have  *)
(*                 returned, oldest first: the data passed and the id      *)
(*                 answered                                                *)
(*   pc, frame     per worker thread: where it stands in create_document   *)
(*                 and that call's locals                                  *)
(***************************************************************************)
Idle == [collection_name |-> None]

Init ==
    /\ memory_store = <<>>
    /\ clock = StartClock
    /\ last = [op |-> "start"]
    /\ returned = <<>>
    /\ pc = [t \in Threads |-> "idle"]
    /\ frame = [t \in Threads |-> Idle]

\* the history with one more returned call of create_document
Record(history, collection_name, call) ==
    [c \in DOMAIN history \cup {collection_name} |->
        IF c = collection_name
        THEN (IF c \in DOMAIN history THEN history[c] ELSE <<>>) \o <<call>>
        ELSE history[c]]

\* documents in the store
RECURSIVE SumLen(_, _)
SumLen(store, cs) ==
    IF cs = {} THEN 0
    ELSE LET c == CHOOSE x \in cs : TRUE IN Len(store[c]) + SumLen(store, cs \ {c})
DocCount == SumLen(memory_store, DOMAIN memory_store)

(***************************************************************************)
(* One request handled from start to end by one worker, no other request   *)
(* in flight.                                                              *)
(***************************************************************************)
\* a handler that stores data in collection_name and answers resp with the
\* id create_document returned under id_key
Handle(op, req, collection_name, data, id_key, resp, d1, d2, d3) ==
    LET r == create_document(memory_store, clock, collection_name, data, d1, d2, d3)
    IN  /\ db = None
        /\ \A t \in Threads : pc[t] = "idle"
        /\ memory_store' = r.store
        /\ clock' = r.clock
        /\ returned' = Record(returned, collection_name, [data |-> data, id |-> r.id])
        /\ last' = [op |-> op, req |-> req, collection_name |-> collection_name,
                    id |-> r.id, resp |-> DictSet(resp, id_key, r.id)]
        /\ UNCHANGED <<pc, frame>>

login(req, d1, d2, d3) ==
    Handle("login", req, "user", LoginDoc(req),
           "user_id", [message |-> "Logged in"], d1, d2, d3)

setup_profile(data, d1, d2, d3) ==
    Handle("setup_profile", data, "profile", ProfileDoc(data),
           "profile_id", <<>>, d1, d2, d3)

chat(req, d1, d2, d3) ==
    Handle("chat", req, ChatCollection(req), ChatDoc(req),
           ChatIdKey(req), ChatResponse(req), d1, d2, d3)

photo_doubt(user_id, file, d1, d2, d3) ==
    Handle("photo_doubt", [user_id |-> user_id, file |-> file], "doubt", PhotoDoc(user_id, file),
           "doubt_id", [ocr_text |-> PhotoOcr(file), answer |-> PhotoAnswer(file)], d1, d2, d3)

generate_flashcards(req, d1, d2, d3) ==
    Handle("generate_flashcards", req, "flashcard", FlashcardDoc(req),
           "flashcard_id", [items |-> FlashcardItems(req)], d1, d2, d3)

generate_quiz(req, d1, d2, d3) ==
    Handle("generate_quiz", req, "quiz", QuizDoc(req),
           "quiz_id", [questions |-> QuizQuestions(req)], d1, d2, d3)

create_plan(req, d1, d2, d3) ==
    Handle("create_plan", req, "studyplan", PlanDoc(req),
           "plan_id", [tasks |-> PlanTasks(req)], d1, d2, d3)

summarize(req, d1, d2, d3) ==
    Handle("summarize", req, "notesummary", SummaryDoc(req),
           "summary_id", [bullets |-> SummaryBullets, explanation |-> SummaryExplanation],
           d1, d2, d3)

library(user_id) ==
    /\ db = None
    /\ \A t \in Threads : pc[t] = "idle"
    /\ last' = [op |-> "library", user_id |-> user_id,
                resp |-> LibraryResponse(memory_store, user_id)]
    /\ UNCHANGED <<memory_store, clock, returned, pc, frame>>

\* a direct call of get_documents
GetDocuments(collection_name, filter_opt, limit) ==
    /\ db = None
    /\ \A t \in Threads : pc[t] = "idle"
    /\ last' = [op |-> "get_documents", collection_name |-> collection_name,
                filter_dict |-> filter_opt, limit |-> limit,
                result |-> get_documents(memory_store, collection_name, filter_opt, limit)]
    /\ UNCHANGED <<memory_store, clock, returned, pc, frame>>

(***************************************************************************)
(* Requests of the model.                                                  *)
(***************************************************************************)
LoginReq == [provider |-> "email", identifier |-> "a@x.in", name |-> None]
ProfileReq(u) ==
    [user_id |-> u, grade |-> None, subjects |-> <<>>, study_goal |-> None,
     preferred_language |-> "English", daily_study_minutes |-> 20]
ChatActions == {None, "simplify", "explain10", "flashcards", "quiz"}
ChatReq(u, a) == [user_id |-> u, message |-> " gravity ", subject |-> None, action |-> a]
PhotoFile == [filename |-> None]
FlashcardReq(u, s, tp, n) == [user_id |-> u, subject |-> s, topic |-> tp, text |-> None, count |-> n]
QuizReq(u, n) == [user_id |-> u, topic |-> "Sets", count |-> n]
PlanReq(u, m, ss) == [user_id |-> u, exam_date |-> "2025-03-01", daily_minutes |-> m, subjects |-> ss]
SummaryReq(u) == [user_id |-> u, subject |-> None, text |-> "notes"]

(***************************************************************************)
(* Spec: every handler, requests served one after another, and direct      *)
(* queries of the flashcard collection.                                    *)
(***************************************************************************)
Filters ==
    {<<>>, << <<>> >>, <<[user_id |-> "u1"]>>, <<[subject |-> "Math"]>>,
     <<[subject |-> None]>>, <<[user_id |-> "u2", subject |-> None]>>}
Limits == {<<>>, <<0>>, <<1>>, <<2>>}

Room == DocCount < MaxDocs

Next ==
    \/ \E d \in Steady : Room /\ login(LoginReq, d, d, d)
    \/ \E d \in Steady : Room /\ setup_profile(ProfileReq("u1"), d, d, d)
    \/ \E d \in Steady, a \in ChatActions : Room /\ chat(ChatReq("u1", a), d, d, d)
    \/ \E d \in Steady : Room /\ chat(ChatReq("u2", "flashcards"), d, d, d)
    \/ \E d \in Steady : Room /\ photo_doubt("u1", PhotoFile, d, d, d)
    \/ \E d \in Steady, u \in Users, s \in {None, "Math"} :
         Room /\ generate_flashcards(FlashcardReq(u, s, None, 2), d, d, d)
    \/ \E d \in Steady : Room /\ generate_quiz(QuizReq("u1", 5), d, d, d)
    \/ \E d \in Steady : Room /\ create_plan(PlanReq("u1", 40, <<"Math", "Science">>), d, d, d)
    \/ \E d \in Steady : Room /\ summarize(SummaryReq("u1"), d, d, d)
    \/ \E f \in Filters, l \in Limits : GetDocuments("flashcard", f, l)
    \/ \E u \in Users : library(u)

Spec == Init /\ [][Next]_vars

(***************************************************************************)
(* Properties of Spec.                                                     *)
(***************************************************************************)
CreateOps ==
    {"login", "setup_profile", "chat", "photo_doubt", "generate_flashcards",
     "generate_quiz", "create_plan", "summarize"}

\* the last call was get_documents with a filter of exactly one key
SingleKeyQuery ==
    /\ last.op = "get_documents"
    /\ last.filter_dict # <<>>
    /\ Cardinality(DOMAIN last.filter_dict[1]) = 1

\* the last call was get_documents with no filter (None or {})
UnfilteredQuery ==
    /\ last.op = "get_documents"
    /\ (last.filter_dict = <<>> \/ DOMAIN last.filter_dict[1] = {})

\* the stored records of a collection that the last query's filter selects
Matching ==
    LET f == IF last.filter_dict = <<>> THEN <<>> ELSE last.filter_dict[1]
    IN  SelectSeq(StoreGet(memory_store, last.collection_name),
                  LAMBDA doc : \A k \in DOMAIN f : DictGet(doc, k) = f[k])

\* C2: get_documents(collection, {k: v}) without a limit returns exactly the
\* stored records of the collection that have a field k equal to v, for
\* every v, None included; a record without a field k is never returned.
C2_FilterReturnsRecordsWithEqualField ==
    (SingleKeyQuery /\ last.limit = <<>>) =>
        LET k == CHOOSE x \in DOMAIN last.filter_dict[1] : TRUE
            v == last.filter_dict[1][k]
        IN  last.result =
                SelectSeq(StoreGet(memory_store, last.collection_name),
                          LAMBDA doc : k \in DOMAIN doc /\ doc[k] = v)

\* C3: for every integer limit N passed, N = 0 included, get_documents
\* returns at most N records, and fewer than N only when fewer than N stored
\* records match the filter.
C3_LimitCapsResult ==
    (last.op = "get_documents" /\ last.limit # <<>>) =>
        LET N == last.limit[1]
        IN  /\ Len(last.result) <= N
            /\ Len(last.result) < N => Len(Matching) < N

\* C4: get_documents(collection, {}) without a limit returns the records
\* created in that collection, all of them and nothing else, oldest first:
\* record i carries the data and the id of the i-th create_document call that
\* returned for the collection.
C4_UnfilteredReturnsAllInCreationOrder ==
    (UnfilteredQuery /\ last.limit = <<>>) =>
        LET calls == StoreGet(returned, last.collection_name)
        IN  /\ Len(last.result) = Len(calls)
            /\ \A i \in 1..Len(calls) :
                 /\ last.result[i]["_id"] = calls[i].id
                 /\ \A k \in DOMAIN calls[i].data : last.result[i][k] = calls[i].data[k]

\* an unfiltered, unlimited query that returned records of both users, the
\* older one first
C4_Witness ==
    /\ UnfilteredQuery
    /\ last.limit = <<>>
    /\ Len(last.result) = 2
    /\ last.result[1].user_id = "u2"
    /\ last.result[2].user_id = "u1"

\* C6: the fallback store is append-only. A handler that calls
\* create_document(collection, data) leaves the collection's list one record
\* longer, the new record (carrying data) at the end, and leaves every
\* record stored before and every other collection as it was; get_documents
\* and library change nothing in the store.
C6_AppendOnly ==
    [][/\ \A c \in DOMAIN memory_store :
            /\ c \in DOMAIN memory_store'
            /\ Len(memory_store'[c]) >= Len(memory_store[c])
            /\ SubSeq(memory_store'[c], 1, Len(memory_store[c])) = memory_store[c]
       /\ last'.op \notin CreateOps => memory_store' = memory_store
       /\ last'.op \in CreateOps =>
            LET c == last'.collection_name
                new == memory_store'[c]
                call == returned'[c][Len(returned'[c])]
            IN  /\ DOMAIN memory_store' = DOMAIN memory_store \cup {c}
                /\ Len(new) = Len(StoreGet(memory_store, c)) + 1
                /\ \A k \in DOMAIN call.data : new[Len(new)][k] = call.data[k]
                /\ \A o \in DOMAIN memory_store \ {c} : memory_store'[o] = memory_store[o]
      ]_vars

\* a handler has just appended to a collection that held a record already
C6_Witness ==
    /\ last.op \in CreateOps
    /\ Len(memory_store[last.collection_name]) = 2

(***************************************************************************)
(* SpecClock: login and summarize served one after another, the clock      *)
(* standing still or advancing between any two reads of it.                *)
(***************************************************************************)
NextClock ==
    \/ \E d1 \in Ticks, d2 \in Ticks, d3 \in Ticks :
         DocCount < MaxClockDocs /\ login(LoginReq, d1, d2, d3)
    \/ \E d1 \in Ticks, d2 \in Ticks, d3 \in Ticks :
         DocCount < MaxClockDocs /\ summarize(SummaryReq("u1"), d1, d2, d3)

SpecClock == Init /\ [][NextClock]_vars

\* the pseudo id read back: the position of its last dash, the tokens of its
\* millisecond stamp and those of its sequence suffix
IdLastDash(id) == CHOOSE p \in 4..Len(id) : id[p] = "-" /\ \A q \in (p + 1)..Len(id) : id[q] # "-"
IdMillis(id) == SubSeq(id, 4, IdLastDash(id) - 1)
IdSuffix(id) == SubSeq(id, IdLastDash(id) + 1, Len(id))

\* C1: with requests served one after another, every id create_document
\* returns is a non-empty string, and no two calls on the same collection
\* return the same id, whether or not they fall in the same millisecond.
C1_SequentialIdsUnique ==
    \A c \in DOMAIN returned :
        \A i \in 1..Len(returned[c]) :
            /\ Len(returned[c][i].id) > 0
            /\ \A j \in 1..Len(returned[c]) : i # j => returned[c][i].id # returned[c][j].id

\* two calls on one collection have returned ids stamped with the same
\* millisecond
C1_Witness ==
    \E c \in DOMAIN returned :
        \E i \in 1..Len(returned[c]) :
            \E j \in (i + 1)..Len(returned[c]) :
                IdMillis(returned[c][i].id) = IdMillis(returned[c][j].id)

\* C5: a record is stored with created_at equal to updated_at, whatever the
\* clock does between the two reads, and no later step changes either
\* timestamp of a stored record.
C5_TimestampsEqualAtCreationAndKept ==
    [][\A c \in DOMAIN memory_store' :
          \A i \in 1..Len(memory_store'[c]) :
              IF i > Len(StoreGet(memory_store, c))
              THEN memory_store'[c][i].created_at = memory_store'[c][i].updated_at
              ELSE /\ memory_store'[c][i].created_at = memory_store[c][i].created_at
                   /\ memory_store'[c][i].updated_at = memory_store[c][i].updated_at
      ]_vars

(***************************************************************************)
(* SpecConc: two worker threads inside create_document at once. A thread   *)
(* can be preempted between the statements of create_document; its steps   *)
(* are the statements that read or write _memory_store or the clock.       *)
(***************************************************************************)
\* calls of create_document that have returned
RECURSIVE CallCount(_, _)
CallCount(history, cs) ==
    IF cs = {} THEN 0
    ELSE LET c == CHOOSE x \in cs : TRUE IN Len(history[c]) + CallCount(history, cs \ {c})
CallsStarted ==
    CallCount(returned, DOMAIN returned) + Cardinality({t \in Threads : pc[t] # "idle"})

\* lines 41-47: data_dict = dict(data), stamped with two reads of the clock
Begin(t, collection_name, data, d1, d2) ==
    /\ db = None
    /\ pc[t] = "idle"
    /\ CallsStarted < MaxCalls
    /\ LET t1 == _now(clock, d1)
           t2 == _now(t1, d2)
       IN  /\ frame' = [frame EXCEPT ![t] = [collection_name |-> collection_name, data |-> data,
                                              data_dict |-> Stamp(data, t1, t2)]]
           /\ clock' = t2
    /\ pc' = [pc EXCEPT ![t] = "setdefault"]
    /\ UNCHANGED <<memory_store, last, returned>>

\* line 51: coll = _memory_store.setdefault(collection_name, [])
SetDefault(t) ==
    /\ pc[t] = "setdefault"
    /\ memory_store' = DictSet(memory_store, frame[t].collection_name,
                               StoreGet(memory_store, frame[t].collection_name))
    /\ pc' = [pc EXCEPT ![t] = "pseudo_id"]
    /\ UNCHANGED <<clock, last, returned, frame>>

\* lines 53-54: the pseudo id from the clock and len(coll), set on data_dict
MakeId(t, d3) ==
    /\ pc[t] = "pseudo_id"
    /\ LET t3 == _now(clock, d3)
           coll == StoreGet(memory_store, frame[t].collection_name)
           pseudo_id == PseudoId(frame[t].collection_name, EpochMillis(t3), Len(coll))
       IN  /\ frame' = [frame EXCEPT ![t] =
                           [collection_name |-> frame[t].collection_name, data |-> frame[t].data,
                            data_dict |-> DictSet(frame[t].data_dict, "_id", pseudo_id),
                            pseudo_id |-> pseudo_id]]
           /\ clock' = t3
    /\ pc' = [pc EXCEPT ![t] = "append"]
    /\ UNCHANGED <<memory_store, last, returned>>

\* lines 55-56: coll.append(data_dict); return str(pseudo_id)
AppendReturn(t) ==
    /\ pc[t] = "append"
    /\ memory_store' = StoreAppend(memory_store, frame[t].collection_name, frame[t].data_dict)
    /\ returned' = Record(returned, frame[t].collection_name,
                          [data |-> frame[t].data, id |-> frame[t].pseudo_id])
    /\ last' = [op |-> "create_document", thread |-> t,
                collection_name |-> frame[t].collection_name, id |-> frame[t].pseudo_id]
    /\ pc' = [pc EXCEPT ![t] = "idle"]
    /\ frame' = [frame EXCEPT ![t] = Idle]
    /\ UNCHANGED clock

NextConc ==
    \E t \in Threads :
        \/ \E d1 \in Ticks, d2 \in Ticks :
             \/ Begin(t, "user", LoginDoc(LoginReq), d1, d2)
             \/ Begin(t, "notesummary", SummaryDoc(SummaryReq("u1")), d1, d2)
        \/ SetDefault(t)
        \/ \E d3 \in Ticks : MakeId(t, d3)
        \/ AppendReturn(t)

SpecConc == Init /\ [][NextConc]_vars

\* the stored records i < j of collection c carry the same sequence suffix
SameSuffix(c, i, j) ==
    IdSuffix(memory_store[c][i]["_id"]) = IdSuffix(memory_store[c][j]["_id"])

\* no stored record of collection c carries the sequence suffix k
SuffixSkipped(c, k) ==
    \A i \in 1..Len(memory_store[c]) : IdSuffix(memory_store[c][i]["_id"]) # Digits(k)

\* C7: under interleaved create_document calls a record's sequence suffix is
\* at most its position in the list, so two stored records of a collection
\* that carry the same suffix leave a suffix value of 1..len skipped, and
\* when their stamps fall in the same millisecond their ids are identical.
C7_DuplicateSuffixSkipsAValue ==
    \A c \in DOMAIN memory_store :
        LET n == Len(memory_store[c])
        IN  /\ \A i \in 1..n : \E k \in 1..i : IdSuffix(memory_store[c][i]["_id"]) = Digits(k)
            /\ \A i \in 1..n : \A j \in (i + 1)..n :
                 SameSuffix(c, i, j) =>
                    /\ \E k \in 1..n : SuffixSkipped(c, k)
                    /\ IdMillis(memory_store[c][i]["_id"]) = IdMillis(memory_store[c][j]["_id"])
                         => memory_store[c][i]["_id"] = memory_store[c][j]["_id"]

\* two interleaved calls on one collection have both returned, with the
\* same suffix, a skipped suffix value and, stamped in the same millisecond,
\* the same id
C7_Witness ==
    \E c \in DOMAIN memory_store :
        /\ Len(memory_store[c]) = 2
        /\ Len(returned[c]) = 2
        /\ SameSuffix(c, 1, 2)
        /\ SuffixSkipped(c, 2)
        /\ returned[c][1].id = returned[c][2].id

(***************************************************************************)
(* SpecGen: the flashcard generator and the study planner over a range of  *)
(* counts, minutes and subject lists.                                      *)
(***************************************************************************)
Counts == {-3, 0, 1, 5, 20, 21, 25}
Topics == {None, "Algebra"}
Minutes == {-5, 0, 1, 40, 45}
SubjectLists == {<<>>, <<"Math">>, <<"Math", "Science">>, <<"Math", "Science", "History">>}

NextGen ==
    \/ \E d \in Steady, n \in Counts, tp \in Topics :
         DocCount < MaxGenDocs /\ generate_flashcards(FlashcardReq("u1", None, tp, n), d, d, d)
    \/ \E d \in Steady, m \in Minutes, ss \in SubjectLists :
         DocCount < MaxGenDocs /\ create_plan(PlanReq("u1", m, ss), d, d, d)

SpecGen == Init /\ [][NextGen]_vars

\* the record a collection received last
Newest(collection_name) == memory_store[collection_name][Len(memory_store[collection_name])]

\* C9: for every integer count, zero and negative ones included,
\* generate_flashcards answers count items clamped into 1..20 (5 for 5, 20
\* for 25, 1 for 0), and the flashcard document it stores holds the same
\* items.
C9_FlashcardCountClamped ==
    last.op = "generate_flashcards" =>
        LET n == last.req.count
            items == last.resp.items
        IN  /\ Len(items) = (IF n < 1 THEN 1 ELSE IF n > 20 THEN 20 ELSE n)
            /\ n = 5 => Len(items) = 5
            /\ n = 25 => Len(items) = 20
            /\ n = 0 => Len(items) = 1
            /\ Newest("flashcard")["_id"] = last.resp.flashcard_id
            /\ Newest("flashcard").items = items

\* a request for 25 flashcards answered with 20
C9_Witness ==
    /\ last.op = "generate_flashcards"
    /\ last.req.count = 25
    /\ Len(last.resp.items) = 20
    /\ Len(Newest("flashcard").items) = 20

\* C10: create_plan answers one task per requested subject, in the order
\* of the subjects, each with minutes = max(1, daily_minutes div max(1,
\* number of subjects)): for n >= 1 subjects the floor of daily_minutes / n
\* when that is at least 1, and 1 otherwise. Math and Science with 40
\* minutes give 2 tasks of 20 minutes; an empty subject list gives no task,
\* and the plan document is stored all the same.
C10_OneTaskPerSubject ==
    last.op = "create_plan" =>
        LET subjects == last.req.subjects
            n == Len(subjects)
            m == last.req.daily_minutes
            tasks == last.resp.tasks
        IN  /\ Len(tasks) = n
            /\ \A i \in 1..n :
                 /\ tasks[i].subject = subjects[i]
                 /\ tasks[i].minutes >= 1
                 /\ m >= n => /\ tasks[i].minutes * n <= m
                              /\ m < (tasks[i].minutes + 1) * n
                 /\ m < n => tasks[i].minutes = 1
            /\ (subjects = <<"Math", "Science">> /\ m = 40) =>
                 /\ n = 2
                 /\ \A i \in 1..2 : tasks[i].minutes = 20
            /\ Newest("studyplan")["_id"] = last.resp.plan_id
            /\ Newest("studyplan").tasks = tasks

\* Math and Science planned with 40 minutes a day
C10_Witness ==
    /\ last.op = "create_plan"
    /\ last.req.subjects = <<"Math", "Science">>
    /\ last.req.daily_minutes = 40
    /\ Len(last.resp.tasks) = 2
    /\ last.resp.tasks[2].minutes = 20

(***************************************************************************)
(* SpecLib: enough plans, doubts and summaries of two users to pass the     *)
(* limits of library, all created within one millisecond, and library      *)
(* called for either user. (Spec calls library with all five collections   *)
(* filled, a few documents each.)                                          *)
(***************************************************************************)
NextLib ==
    \/ \E d \in Frozen, u \in Users :
         DocCount < MaxLibDocs /\ create_plan(PlanReq(u, 40, <<"Math">>), d, d, d)
    \/ \E d \in Frozen : DocCount < MaxLibDocs /\ chat(ChatReq("u1", None), d, d, d)
    \/ \E d \in Frozen : DocCount < MaxLibDocs /\ summarize(SummaryReq("u2"), d, d, d)
    \/ \E u \in Users : library(u)

SpecLib == Init /\ [][NextLib]_vars

\* the stored records of a collection that belong to a user
OwnedBy(collection_name, user_id) ==
    SelectSeq(StoreGet(memory_store, collection_name), LAMBDA doc : doc.user_id = user_id)

\* a sequence of records that are stored in the collection, belong to the
\* user and number at most cap
LibraryList(r, collection_name, user_id, cap) ==
    /\ Len(r) <= cap
    /\ \A i \in 1..Len(r) :
         /\ r[i].user_id = user_id
         /\ \E j \in 1..Len(StoreGet(memory_store, collection_name)) :
              memory_store[collection_name][j] = r[i]

LibraryCollections == {"doubt", "flashcard", "quiz", "studyplan", "notesummary"}

\* C8: library answers five sequences holding only stored documents of the
\* requested user, at most 10 doubts, 10 flashcards, 10 quizzes, 5 plans and
\* 10 summaries; for a user without documents all five are empty, whatever
\* other users have stored.
C8_LibraryListsOwnDocumentsCapped ==
    last.op = "library" =>
        LET u == last.user_id
            r == last.resp
        IN  /\ DOMAIN r = {"recent_doubts", "flashcards", "quizzes", "plans", "summaries"}
            /\ LibraryList(r.recent_doubts, "doubt", u, 10)
            /\ LibraryList(r.flashcards, "flashcard", u, 10)
            /\ LibraryList(r.quizzes, "quiz", u, 10)
            /\ LibraryList(r.plans, "studyplan", u, 5)
            /\ LibraryList(r.summaries, "notesummary", u, 10)
            /\ (\A c \in LibraryCollections : OwnedBy(c, u) = <<>>) =>
                 /\ r.recent_doubts = <<>>
                 /\ r.flashcards = <<>>
                 /\ r.quizzes = <<>>
                 /\ r.plans = <<>>
                 /\ r.summaries = <<>>

\* library called for a user who has six plans, another user having one:
\* five plans are answered
C8_Witness ==
    /\ last.op = "library"
    /\ Len(OwnedBy("studyplan", last.user_id)) = 6
    /\ Len(StoreGet(memory_store, "studyplan")) = 7
    /\ Len(last.resp.plans) = 5

====
